---------------------------- MODULE Spec2Model ----------------------------
(***************************************************************************)
(* Model of src/app.py: reconciliation of roster, metadata feed and tally  *)
(* into canonical candidates, the two-level D'Hondt allocation, coalition   *)
(* fusion (simulation modes) and the national aggregation.                  *)
(*                                                                          *)
(* Python dicts are modelled as sequences of entries in insertion order     *)
(* (iteration order is part of the behaviour).  list.sort(reverse=True) is  *)
(* stable: entries with equal keys keep their relative order.  Quotients    *)
(* votes/divisor are floats in the code; for vote counts far below 2^53     *)
(* two quotients compare as the exact rationals do, so they are compared    *)
(* here by cross-multiplication.                                            *)
(***************************************************************************)
EXTENDS Integers, Sequences, FiniteSets, TLC

VARIABLES
    pc,                 \* position of the running call
    entrada,            \* arguments / source snapshot of the running call
    resultado,          \* value returned by the call
    coeficientes,       \* calcular_dhondt_interno_pacto: sorted quotient list
    i_coef,             \* calcular_dhondt_interno_pacto: position of the walk
    asignacion_final,   \* calcular_dhondt_interno_pacto: party -> seats so far
    escanos_asignados,  \* calcular_dhondt_interno_pacto: seats given so far
    partidos_list,      \* calcular_dhondt_interno_pacto: parties of the pool
    mode,               \* hemiciclo_nacional: request argument "mode"
    distrito_num,       \* hemiciclo_nacional: loop variable
    estadisticas,       \* hemiciclo_nacional: accumulated statistics
    todos_electos,      \* hemiciclo_nacional: nationwide elected list
    resultados_por_distrito_normal,
    resultados_por_distrito_simulado,
    historial           \* what each visited district's calls returned

varsLlamada == <<pc, entrada, resultado>>
varsRecorrido == <<coeficientes, i_coef, asignacion_final, escanos_asignados,
                   partidos_list>>
varsNacional == <<mode, distrito_num, estadisticas, todos_electos,
                  resultados_por_distrito_normal,
                  resultados_por_distrito_simulado, historial>>
vars == <<pc, entrada, resultado, coeficientes, i_coef, asignacion_final,
          escanos_asignados, partidos_list, mode, distrito_num, estadisticas,
          todos_electos, resultados_por_distrito_normal,
          resultados_por_distrito_simulado, historial>>

(***************************************************************************)
(* Bounds of the model.                                                    *)
(***************************************************************************)
MaxPactos == 3          \* coalitions given to aplicar_dhondt_entre_pactos
MaxVotosPacto == 4      \* largest vote total of one of them
MaxEscanos == 3         \* largest seat count given to either level
MaxPool == 3            \* candidates of a coalition given to Level 2
MaxVotos == 2           \* largest vote count of one candidate
MaxEscanosDistrito == 2 \* largest configured seat count of a district
MaxLista == 3           \* candidates given to fusionar_pactos_en_candidatos
MaxDistritosConDatos == 2   \* districts of the national run that have data

(***************************************************************************)
(* Values.                                                                 *)
(***************************************************************************)
None == [tipo |-> "None"]
Excepcion == [tipo |-> "Excepcion"]

LetrasPacto == {"A", "J", "K"}

Min(a, b) == IF a <= b THEN a ELSE b

RECURSIVE Suma(_)
Suma(s) == IF s = <<>> THEN 0 ELSE Head(s) + Suma(Tail(s))

Contar(s, valor) == Cardinality({i \in DOMAIN s : s[i] = valor})

(***************************************************************************)
(* list.sort(key=..., reverse=True): a stable sort, descending.            *)
(* mayor[i][j] says that the key of s[i] is strictly greater than the key   *)
(* of s[j].  An element ends after every element of strictly greater key    *)
(* and after the earlier elements of equal key: elements of equal key keep  *)
(* their original order.                                                    *)
(***************************************************************************)
PosicionOrdenada(s, mayor, i) ==
    1 + Cardinality({j \in DOMAIN s :
                        mayor[j][i] \/ (~mayor[i][j] /\ j < i)})

SortDesc(s, mayor) ==
    [k \in 1..Len(s) |->
        s[CHOOSE i \in DOMAIN s : PosicionOrdenada(s, mayor, i) = k]]

\* key=lambda x: x["votos"], reverse=True
SortPorVotosDesc(s) ==
    SortDesc(s, [i \in DOMAIN s |-> [j \in DOMAIN s |-> s[i].votos > s[j].votos]])

(***************************************************************************)
(* Level 1: aplicar_dhondt_entre_pactos.                                   *)
(***************************************************************************)
\* "coeficiente": total_votos / divisor, compared as a rational
CoeficienteMayor(a, b) ==
    a.votos_originales * b.divisor > b.votos_originales * a.divisor

CoeficientesDePacto(info, escanos) ==
    [divisor \in 1..escanos |->
        [pacto_letra |-> info.letra, pacto_nombre |-> info.nombre,
         divisor |-> divisor, votos_originales |-> info.total_votos]]

RECURSIVE CoeficientesPactos(_, _)
CoeficientesPactos(pactos, escanos) ==
    IF pactos = <<>> THEN <<>>
    ELSE CoeficientesDePacto(Head(pactos), escanos)
         \o CoeficientesPactos(Tail(pactos), escanos)

\* a sort that puts the later of two equal quotients first
OrdenarCoeficientesUltimoPrimero(coefs) ==
    LET n == Len(coefs)
        alreves == [k \in 1..n |-> coefs[n + 1 - k]]
    IN  SortDesc(alreves, [i \in 1..n |-> [j \in 1..n |->
                            CoeficienteMayor(alreves[i], alreves[j])]])

\* a sort whose order among equal quotients changes from one call to the
\* next
OrdenarCoeficientesSegunLlamada(coefs) ==
    IF pc = "inicio"
    THEN SortDesc(coefs, [i \in DOMAIN coefs |-> [j \in DOMAIN coefs |->
                            CoeficienteMayor(coefs[i], coefs[j])]])
    ELSE OrdenarCoeficientesUltimoPrimero(coefs)

\* coeficientes.sort(key=lambda x: x["coeficiente"], reverse=True)
OrdenarCoeficientes(coefs) ==
    SortDesc(coefs, [i \in DOMAIN coefs |-> [j \in DOMAIN coefs |->
                        CoeficienteMayor(coefs[i], coefs[j])]])

MejoresCoeficientes(pactos, escanos) ==
    LET ordenados == OrdenarCoeficientes(CoeficientesPactos(pactos, escanos))
    IN  SubSeq(ordenados, 1, Min(escanos, Len(ordenados)))

\* asignacion: letter -> number of its quotients among the best ones
ContarPorLetra(mejores) ==
    LET letras == {mejores[i].pacto_letra : i \in DOMAIN mejores}
    IN  [l \in letras |->
            Cardinality({i \in DOMAIN mejores : mejores[i].pacto_letra = l})]

AplicarDhondtEntrePactos(pactos, escanos) ==
    LET mejores == MejoresCoeficientes(pactos, escanos)
    IN  [asignacion |-> ContarPorLetra(mejores), mejores_coeficientes |-> mejores]

\* dict.get(clave, 0)
Get0(d, clave) == IF clave \in DOMAIN d THEN d[clave] ELSE 0

(***************************************************************************)
(* Level 2: calcular_dhondt_interno_pacto.                                 *)
(***************************************************************************)
\* keys of a dict in insertion order: the distinct elements, first seen first
RECURSIVE Distintas(_)
Distintas(s) ==
    IF s = <<>> THEN <<>>
    ELSE LET antes == Distintas(SubSeq(s, 1, Len(s) - 1))
             ultimo == s[Len(s)]
         IN  IF \E i \in DOMAIN antes : antes[i] = ultimo
             THEN antes ELSE Append(antes, ultimo)

\* cand.get("cupo", "") or "SIN_CUPO"
ClaveCupo(cand) == IF cand.cupo = "" THEN "SIN_CUPO" ELSE cand.cupo

VotosDe(cands) == [i \in DOMAIN cands |-> cands[i].votos]

\* the dict "partidos": one entry per cupo label, candidates sorted by votes
PartidosPorCupo(candidatos) ==
    LET claves == Distintas([i \in DOMAIN candidatos |-> ClaveCupo(candidatos[i])])
    IN  [k \in DOMAIN claves |->
            LET suyos == SelectSeq(candidatos, LAMBDA c : ClaveCupo(c) = claves[k])
            IN  [partido |-> claves[k],
                 total_votos |-> Suma(VotosDe(suyos)),
                 candidatos |-> SortPorVotosDesc(suyos),
                 candidatos_disponibles |-> Len(suyos)]]

\* partidos_list.sort(key=lambda x: x["total_votos"], reverse=True)
PartidosList(candidatos) ==
    LET ps == PartidosPorCupo(candidatos)
    IN  SortDesc(ps, [i \in DOMAIN ps |-> [j \in DOMAIN ps |->
                        ps[i].total_votos > ps[j].total_votos]])

\* "valor" is total_votos / division, kept as the pair (votos, division)
CoeficientesDePartido(partido, escanos_pacto) ==
    [d \in 1..escanos_pacto |->
        [partido |-> partido.partido, division |-> d,
         votos |-> partido.total_votos,
         candidatos_disponibles |-> partido.candidatos_disponibles]]

RECURSIVE CoeficientesPartidos(_, _)
CoeficientesPartidos(plist, escanos_pacto) ==
    IF plist = <<>> THEN <<>>
    ELSE CoeficientesDePartido(Head(plist), escanos_pacto)
         \o CoeficientesPartidos(Tail(plist), escanos_pacto)

ValorMayor(a, b) == a.votos * b.division > b.votos * a.division

\* coeficientes.sort(key=lambda x: x["valor"], reverse=True)
CoeficientesInternos(plist, escanos_pacto) ==
    LET cs == CoeficientesPartidos(plist, escanos_pacto)
    IN  SortDesc(cs, [i \in DOMAIN cs |-> [j \in DOMAIN cs |->
                        ValorMayor(cs[i], cs[j])]])

\* the comparison off by one
PartidoConCupoLibreHolgado(asig, coef) ==
    Get0(asig, coef.partido) <= coef.candidatos_disponibles

\* if asignacion_final.get(partido, 0) < coef["candidatos_disponibles"]
PartidoConCupoLibre(asig, coef) ==
    Get0(asig, coef.partido) < coef.candidatos_disponibles

\* asignacion_final[partido] = asignacion_final.get(partido, 0) + 1
SumarEscano(asig, partido) ==
    [p \in DOMAIN asig \cup {partido} |->
        IF p = partido THEN Get0(asig, partido) + 1 ELSE asig[p]]

AsignacionVacia == [p \in {} |-> 0]

\* the walk over the sorted quotients, from position i
RECURSIVE Recorrer(_, _, _, _, _)
Recorrer(coefs, i, asig, asignados, escanos_pacto) ==
    IF i > Len(coefs) \/ asignados >= escanos_pacto THEN asig
    ELSE IF PartidoConCupoLibre(asig, coefs[i])
         THEN Recorrer(coefs, i + 1, SumarEscano(asig, coefs[i].partido),
                       asignados + 1, escanos_pacto)
         ELSE Recorrer(coefs, i + 1, asig, asignados, escanos_pacto)

CalcularDhondtInternoPacto(candidatos, escanos_pacto) ==
    LET plist == PartidosList(candidatos)
    IN  [asignacion_final |->
            Recorrer(CoeficientesInternos(plist, escanos_pacto), 1,
                     AsignacionVacia, 0, escanos_pacto),
         partidos_list |-> plist]

(***************************************************************************)
(* Identity Normalizer and Name Matcher.                                   *)
(*                                                                         *)
(* Names are taken from a small universe.  preprocesar_nombre lower-cases,  *)
(* strips, folds diacritics and drops honorific tokens; PreprocesarNombre   *)
(* is that function tabulated on the universe.  The similarity metric       *)
(* (rapidfuzz WRatio) is an input: a function from pairs of normalized      *)
(* names to 0..100.                                                         *)
(***************************************************************************)
NombresApi == {"Ana", "Luz"}
NombresCsv == {"ANA", "Sra Luz"}
NombresNormalizados == {"ana", "luz", ""}

PreprocesarNombre(nombre) ==
    CASE nombre \in {"Ana", "ANA", "ana"} -> "ana"
      [] nombre \in {"Luz", "Sra Luz", "luz"} -> "luz"
      [] OTHER -> ""

UmbralCorte == 50       \* score_cutoff=50
UmbralMatch == 80       \* score >= 80

\* process.extract(..., score_cutoff=50, limit=1): the index of the best
\* roster name, the first among equals; 0 when no score reaches the cutoff
MejorIndice(nombre_api, candidatos_csv, similitud) ==
    LET q == PreprocesarNombre(nombre_api)
        sc(i) == similitud[<<q, PreprocesarNombre(candidatos_csv[i].name)>>]
        buenos == {i \in DOMAIN candidatos_csv : sc(i) >= UmbralCorte}
    IN  IF buenos = {} THEN 0
        ELSE CHOOSE i \in buenos :
                \A j \in buenos : sc(i) > sc(j) \/ (sc(i) = sc(j) /\ i <= j)

\* the matcher accepting every score that passes the cutoff
HacerMatchSinUmbral(nombre_api, candidatos_csv, similitud) ==
    IF nombre_api = "" \/ candidatos_csv = <<>>
    THEN [candidato |-> None, score |-> 0]
    ELSE LET idx == MejorIndice(nombre_api, candidatos_csv, similitud)
         IN  IF idx = 0 THEN [candidato |-> None, score |-> 0]
             ELSE [candidato |-> candidatos_csv[idx],
                   score |-> similitud[<<PreprocesarNombre(nombre_api),
                                PreprocesarNombre(candidatos_csv[idx].name)>>]]

HacerMatchPorNombre(nombre_api, candidatos_csv, similitud) ==
    IF nombre_api = "" \/ candidatos_csv = <<>>
    THEN [candidato |-> None, score |-> 0]
    ELSE LET idx == MejorIndice(nombre_api, candidatos_csv, similitud)
         IN  IF idx = 0 THEN [candidato |-> None, score |-> 0]
             ELSE LET score == similitud[<<PreprocesarNombre(nombre_api),
                                   PreprocesarNombre(candidatos_csv[idx].name)>>]
                  IN  IF score >= UmbralMatch
                      THEN [candidato |-> candidatos_csv[idx], score |-> score]
                      ELSE [candidato |-> None, score |-> score]

(***************************************************************************)
(* Source Reconciler.  A district's sources:                               *)
(*   csv.filas : roster rows of the district [name, cupo, pacto_letra,      *)
(*               id_foto]                                                   *)
(*   api.c     : feed entries [id, n, c, s] in dict order                   *)
(*   api.h     : the ordered candidate list, as names                       *)
(*   xml.votos : tally entries [id, votos] in dict order                    *)
(*   config    : [escanos, pactos_nombre, valor_uf] for the district        *)
(* Every loaded source carries tipo = "ok"; a load that raises is the       *)
(* value Excepcion.  The fields zona of a candidate is not modelled.        *)
(***************************************************************************)
LetrasMapeo == <<"A", "B", "C", "D", "E", "F", "G", "H", "I", "J", "K", "L",
                 "M", "N", "O", "P", "Q", "R", "S", "T", "U", "V", "W", "X",
                 "Y", "Z">>

\* position in the dict candidatos_api of an id; 0 when absent
IndiceApi(candidatos_api, api_id) ==
    IF \E k \in DOMAIN candidatos_api : candidatos_api[k].id = api_id
    THEN CHOOSE k \in DOMAIN candidatos_api : candidatos_api[k].id = api_id
    ELSE 0

\* crear_mapeo_ids_xml_a_api: letter -> id of the first feed entry that has
\* the name of the i-th candidate of the ordered list
CrearMapeoIdsXmlAApi(api) ==
    LET conNombre(i) == {k \in DOMAIN api.c : api.c[k].n = api.h[i]}
        letras == {i \in DOMAIN api.h : i <= Len(LetrasMapeo) /\ conNombre(i) # {}}
    IN  [l \in {LetrasMapeo[i] : i \in letras} |->
            LET i == CHOOSE i \in letras : LetrasMapeo[i] = l
                k == CHOOSE k \in conNombre(i) : \A k2 \in conNombre(i) : k <= k2
            IN  api.c[k].id]

\* pactos_nombre.get(letra, f"Pacto {letra}")
PactoNombre(pactos_nombre, letra) ==
    IF letra \in DOMAIN pactos_nombre THEN pactos_nombre[letra]
    ELSE "Pacto " \o letra

SinFoto == ""           \* foto = None

\* line 289: the feed id a tally key stands for; "" when it resolves to none
ResolverApiId(xml_id, mapeo_ids, candidatos_api) ==
    IF xml_id \in DOMAIN mapeo_ids THEN mapeo_ids[xml_id]
    ELSE IF IndiceApi(candidatos_api, xml_id) # 0 THEN xml_id ELSE ""

\* lines 294-321: the canonical candidate of one tally entry
CandidatoCompleto(api_id, votos, candidatos_api, candidatos_csv, similitud, pactos_nombre) ==
    LET datos == candidatos_api[IndiceApi(candidatos_api, api_id)]
        m == HacerMatchPorNombre(datos.n, candidatos_csv, similitud)
        exito == m.candidato # None /\ m.score >= UmbralMatch
        pacto_letra == IF exito THEN m.candidato.pacto_letra ELSE "X"
    IN  [id_api |-> api_id,
         votos |-> votos,
         nombre |-> datos.n,
         partido |-> datos.c,
         pacto_letra |-> pacto_letra,
         pacto_nombre |-> PactoNombre(pactos_nombre, pacto_letra),
         sexo |-> datos.s,
         cupo |-> IF m.candidato # None THEN m.candidato.cupo ELSE "",
         foto |-> IF exito /\ m.candidato.id_foto # ""
                  THEN "foto/" \o m.candidato.id_foto ELSE SinFoto,
         match_quality |-> m.score,
         match_exitoso |-> exito]

RECURSIVE CandidatosCompletos(_, _, _, _, _, _)
CandidatosCompletos(votos_xml, mapeo_ids, candidatos_api, candidatos_csv, similitud, pactos_nombre) ==
    IF votos_xml = <<>> THEN <<>>
    ELSE LET api_id == ResolverApiId(Head(votos_xml).id, mapeo_ids, candidatos_api)
             resto == CandidatosCompletos(Tail(votos_xml), mapeo_ids,
                        candidatos_api, candidatos_csv, similitud, pactos_nombre)
         IN  IF api_id = "" \/ IndiceApi(candidatos_api, api_id) = 0
             THEN resto
             ELSE <<CandidatoCompleto(api_id, Head(votos_xml).votos,
                        candidatos_api, candidatos_csv, similitud,
                        pactos_nombre)>> \o resto

\* the reconciler without its guard of lines 281-282
IntegrarSinGuarda(f) ==
    IF f.csv = Excepcion \/ f.api = Excepcion \/ f.xml = Excepcion
    THEN Excepcion
    ELSE IF f.config = Excepcion THEN Excepcion
    ELSE [tipo |-> "ok",
          candidatos |-> SortPorVotosDesc(
            CandidatosCompletos(f.xml.votos, CrearMapeoIdsXmlAApi(f.api),
                                f.api.c, f.csv.filas, f.similitud,
                                f.config.pactos_nombre))]

\* integrar_tres_fuentes_limpio: [tipo |-> "ok", candidatos |-> the list of
\* canonical candidates], or Excepcion when a load raises
IntegrarTresFuentesLimpio(f) ==
    IF f.csv = Excepcion \/ f.api = Excepcion \/ f.xml = Excepcion
    THEN Excepcion
    ELSE IF f.csv.filas = <<>> \/ f.api.c = <<>> \/ f.xml.votos = <<>>
    THEN [tipo |-> "ok", candidatos |-> <<>>]
    ELSE IF f.config = Excepcion THEN Excepcion
    ELSE [tipo |-> "ok",
          candidatos |-> SortPorVotosDesc(
            CandidatosCompletos(f.xml.votos, CrearMapeoIdsXmlAApi(f.api),
                                f.api.c, f.csv.filas, f.similitud,
                                f.config.pactos_nombre))]

(***************************************************************************)
(* Coalition Fuser: fusionar_pactos_en_candidatos.                         *)
(***************************************************************************)
LetrasDerechas == {"J", "K"}
LetrasIzquierdas == {"A", "B", "C", "D", "F", "G", "H"}

\* cand_copy with the two coalition fields rewritten
Refundido(candidato, letra, nombre) ==
    [candidato EXCEPT !.pacto_letra = letra, !.pacto_nombre = nombre]

\* the fuser without its early return for "normal"
FusionarSinRetornoNormal(candidatos, modo) ==
    IF modo = "derechas" THEN
        [i \in DOMAIN candidatos |->
            IF candidatos[i].pacto_letra \in LetrasDerechas
            THEN Refundido(candidatos[i], "JK", "Derechas Unidas (J+K)")
            ELSE candidatos[i]]
    ELSE IF modo = "izquierdas" THEN
        [i \in DOMAIN candidatos |->
            IF candidatos[i].pacto_letra \in LetrasIzquierdas
            THEN Refundido(candidatos[i], "IZQ", "Izquierdas Unidas (A+B+C+D+F+G+H)")
            ELSE candidatos[i]]
    ELSE <<>>

FusionarPactosEnCandidatos(candidatos, modo) ==
    IF modo = "normal" THEN candidatos
    ELSE IF modo = "derechas" THEN
        [i \in DOMAIN candidatos |->
            IF candidatos[i].pacto_letra \in LetrasDerechas
            THEN Refundido(candidatos[i], "JK", "Derechas Unidas (J+K)")
            ELSE candidatos[i]]
    ELSE IF modo = "izquierdas" THEN
        [i \in DOMAIN candidatos |->
            IF candidatos[i].pacto_letra \in LetrasIzquierdas
            THEN Refundido(candidatos[i], "IZQ", "Izquierdas Unidas (A+B+C+D+F+G+H)")
            ELSE candidatos[i]]
    ELSE <<>>

(***************************************************************************)
(* District Calculator: calcular_dhondt_distrito and                       *)
(* calcular_dhondt_distrito_simulado.  The two functions share, line for   *)
(* line, the grouping by coalition, the two allocation levels and the      *)
(* assembly of the result (lines 415-545 and 604-734).                     *)
(***************************************************************************)
ValorUFPorDefecto == 500

\* config.get("valor_uf", 500)
ValorUF(config) ==
    IF config.valor_uf = None THEN ValorUFPorDefecto ELSE config.valor_uf.valor

\* "if not escanos": the district has no entry, or the entry is 0
SinEscanos(escanos) ==
    escanos = None \/ (escanos.tipo = "int" /\ escanos.valor = 0)

\* a candidate that leaves out the match-success test
ParticipaSiempre(candidato) == TRUE

\* "if not candidato.get("match_exitoso", True): continue"
Participa(candidato) == candidato.match_exitoso

\* the dict "pactos": one entry per coalition letter, in order of first
\* appearance among the candidates that take part
PactosDeCandidatos(candidatos, pactos_nombre) ==
    LET validos == SelectSeq(candidatos, Participa)
        letras == Distintas([i \in DOMAIN validos |-> validos[i].pacto_letra])
    IN  [k \in DOMAIN letras |->
            LET suyos == SelectSeq(validos, LAMBDA c : c.pacto_letra = letras[k])
            IN  [nombre |-> PactoNombre(pactos_nombre, letras[k]),
                 letra |-> letras[k],
                 total_votos |-> Suma(VotosDe(suyos)),
                 candidatos_completos |-> suyos]]

\* the dict "partidos_info": the coalition's candidates by "partido" label
PartidosInfo(candidatos_completos) ==
    LET claves == Distintas([i \in DOMAIN candidatos_completos |->
                                candidatos_completos[i].partido])
    IN  [k \in DOMAIN claves |->
            LET suyos == SelectSeq(candidatos_completos,
                                   LAMBDA c : c.partido = claves[k])
            IN  [partido |-> claves[k],
                 total_votos |-> Suma(VotosDe(suyos)),
                 candidatos |-> SortPorVotosDesc(
                    [i \in DOMAIN suyos |->
                        [nombre |-> suyos[i].nombre, votos |-> suyos[i].votos,
                         cupo |-> suyos[i].cupo, sexo |-> suyos[i].sexo]])]]

\* pacto_info_para_dhondt["candidatos"]
RECURSIVE PactoInfoParaDhondt(_)
PactoInfoParaDhondt(partidos_info) ==
    IF partidos_info = <<>> THEN <<>>
    ELSE LET datos == Head(partidos_info)
         IN  [i \in DOMAIN datos.candidatos |->
                [nombre |-> datos.candidatos[i].nombre,
                 votos |-> datos.candidatos[i].votos,
                 cupo |-> datos.candidatos[i].cupo,
                 partido |-> datos.partido,
                 sexo |-> datos.candidatos[i].sexo]]
             \o PactoInfoParaDhondt(Tail(partidos_info))

\* next(c for c in info["candidatos_completos"] if c["nombre"] == nombre)
CandidatoPorNombre(candidatos_completos, nombre) ==
    LET con == {i \in DOMAIN candidatos_completos :
                    candidatos_completos[i].nombre = nombre}
    IN  candidatos_completos[CHOOSE i \in con : \A j \in con : i <= j]

\* lines 484-501: the elected candidates of one "partido" entry
ElectosDePartido(distrito, candidatos_completos, datos, escanos_partido) ==
    [i \in 1..Min(escanos_partido, Len(datos.candidatos)) |->
        LET c == CandidatoPorNombre(candidatos_completos, datos.candidatos[i].nombre)
        IN  [nombre |-> c.nombre, cupo |-> c.cupo, partido |-> c.partido,
             votos |-> c.votos, sexo |-> c.sexo, foto |-> c.foto,
             distrito |-> distrito]]

RECURSIVE ElectosDePartidos(_, _, _, _)
ElectosDePartidos(distrito, candidatos_completos, partidos_info, asignacion_partidos) ==
    IF partidos_info = <<>> THEN <<>>
    ELSE ElectosDePartido(distrito, candidatos_completos, Head(partidos_info),
                          Get0(asignacion_partidos, Head(partidos_info).partido))
         \o ElectosDePartidos(distrito, candidatos_completos,
                              Tail(partidos_info), asignacion_partidos)

\* a count that takes every elected candidate for a woman
MujeresSinMirarSexo(electos) == Len(electos)

Mujeres(electos) ==
    Cardinality({i \in DOMAIN electos : electos[i].sexo = "M"})

\* lines 508-519: the result entry of a coalition with seats
EntradaDePacto(info, pacto_seats, valor_uf, electos) ==
    [nombre |-> info.nombre, letra |-> info.letra,
     total_votos |-> info.total_votos, escanos |-> pacto_seats,
     candidatos_electos |-> electos,
     mujeres_electas |-> Mujeres(electos),
     bonificacion |-> Mujeres(electos) * valor_uf]

\* lines 463-506: Level 2 over the parties of the coalition, then the elected
\* candidates of each party, sorted by votes
PactoConEscanos(distrito, info, pacto_seats, valor_uf, partidos_info) ==
    EntradaDePacto(info, pacto_seats, valor_uf,
        SortPorVotosDesc(
            ElectosDePartidos(distrito, info.candidatos_completos, partidos_info,
                CalcularDhondtInternoPacto(PactoInfoParaDhondt(partidos_info),
                                           pacto_seats).asignacion_final)))

\* lines 441-530: the result entry of one coalition
ResultadoDePacto(distrito, info, pacto_seats, valor_uf) ==
    IF pacto_seats > 0
    THEN PactoConEscanos(distrito, info, pacto_seats, valor_uf,
                         PartidosInfo(info.candidatos_completos))
    ELSE [nombre |-> info.nombre, letra |-> info.letra,
          total_votos |-> info.total_votos, escanos |-> 0,
          candidatos_electos |-> <<>>, mujeres_electas |-> 0,
          bonificacion |-> 0]

\* the coalition entries left in the order of the dict "pactos"
OrdenarPactosResultSinOrdenar(ps) == ps

\* pactos_result.sort(key=lambda p: (p["escanos"], p["total_votos"]), reverse=True)
OrdenarPactosResult(ps) ==
    SortDesc(ps, [i \in DOMAIN ps |-> [j \in DOMAIN ps |->
        \/ ps[i].escanos > ps[j].escanos
        \/ ps[i].escanos = ps[j].escanos /\ ps[i].total_votos > ps[j].total_votos]])

\* lines 534-545 (porcentaje_mujeres, a rounded float of the same counts, is
\* left out)
ArmarResultado(distrito, escanos, pactos_result, valor_uf) ==
    [tipo |-> "resultado",
     distrito |-> distrito,
     escanos |-> escanos,
     pactos |-> pactos_result,
     total_diputados |-> Suma([k \in DOMAIN pactos_result |->
                                pactos_result[k].escanos]),
     resumen_mujeres |->
        [total_mujeres_electas |->
            Suma([k \in DOMAIN pactos_result |->
                    pactos_result[k].mujeres_electas]),
         total_bonificacion |->
            Suma([k \in DOMAIN pactos_result |-> pactos_result[k].bonificacion]),
         valor_uf |-> valor_uf]]

\* lines 436-532: one entry per coalition, in the order of the final sort
PactosResult(distrito, pactos, asignacion, valor_uf) ==
    OrdenarPactosResult(
        [k \in DOMAIN pactos |->
            ResultadoDePacto(distrito, pactos[k],
                             Get0(asignacion, pactos[k].letra), valor_uf)])

\* lines 434-545: Level 1 over the coalitions, then the result
ResultadoDePactos(distrito, escanos, pactos, valor_uf) ==
    ArmarResultado(distrito, escanos,
        PactosResult(distrito, pactos,
                     AplicarDhondtEntrePactos(pactos, escanos).asignacion,
                     valor_uf),
        valor_uf)

\* lines 415-545: from the reconciled candidates to the district result
ResultadoDistrito(distrito, candidatos, escanos, pactos_nombre, valor_uf) ==
    ResultadoDePactos(distrito, escanos,
                      PactosDeCandidatos(candidatos, pactos_nombre), valor_uf)

\* a function body without its try/except
SinCapturar(r) == r

\* try: ... except Exception: return None
Capturar(r) == IF r = Excepcion THEN None ELSE r

\* dict.copy() followed by "del" of the given keys and one added entry
TablaFusionada(pactos_nombre, quitadas, letra, nombre) ==
    [l \in (DOMAIN pactos_nombre \ quitadas) \cup {letra} |->
        IF l = letra THEN nombre ELSE pactos_nombre[l]]

\* lines 584-596
PactosNombreSimulado(pactos_nombre, modo) ==
    IF modo = "derechas"
    THEN TablaFusionada(pactos_nombre, LetrasDerechas, "JK", "Derechas Unidas (J+K)")
    ELSE IF modo = "izquierdas"
    THEN TablaFusionada(pactos_nombre, LetrasIzquierdas, "IZQ",
                        "Izquierdas Unidas (A+B+C+D+F+G+H)")
    ELSE pactos_nombre

\* lines 413-545, r being what integrar_tres_fuentes_limpio gave; a seat
\* count that is not an integer raises TypeError in
\* aplicar_dhondt_entre_pactos
CuerpoConCandidatos(f, modo, simulado, r) ==
    IF r = Excepcion THEN Excepcion
    ELSE IF f.config.escanos.tipo # "int" THEN Excepcion
    ELSE ResultadoDistrito(f.distrito,
            IF simulado THEN FusionarPactosEnCandidatos(r.candidatos, modo)
            ELSE r.candidatos,
            f.config.escanos.valor,
            IF simulado
            THEN PactosNombreSimulado(f.config.pactos_nombre, modo)
            ELSE f.config.pactos_nombre,
            ValorUF(f.config))

\* the try body shared by both functions
CuerpoDistrito(f, modo, simulado) ==
    IF f.config = Excepcion THEN Excepcion
    ELSE IF SinEscanos(f.config.escanos) THEN None
    ELSE CuerpoConCandidatos(f, modo, simulado, IntegrarTresFuentesLimpio(f))

CalcularDhondtDistritoSimulado(f, modo) ==
    Capturar(CuerpoDistrito(f, modo, TRUE))

CalcularDhondtDistrito(f, modo) ==
    Capturar(IF modo # "normal" THEN CalcularDhondtDistritoSimulado(f, modo)
             ELSE CuerpoDistrito(f, modo, FALSE))

(***************************************************************************)
(* Variables a specification does not use stay at these values.            *)
(***************************************************************************)
RecorridoInactivo ==
    /\ coeficientes = <<>>
    /\ i_coef = 0
    /\ asignacion_final = AsignacionVacia
    /\ escanos_asignados = 0
    /\ partidos_list = <<>>

NacionalInactivo ==
    /\ mode = "normal"
    /\ distrito_num = 0
    /\ estadisticas = None
    /\ todos_electos = <<>>
    /\ resultados_por_distrito_normal = <<>>
    /\ resultados_por_distrito_simulado = <<>>
    /\ historial = <<>>

(***************************************************************************)
(* SpecPactos: one call of aplicar_dhondt_entre_pactos.                    *)
(***************************************************************************)
ListaLetras == <<"A", "J", "K", "B", "C", "D">>

\* the dict "pactos" in insertion order, with the given vote totals
PactosConVotos(votos) ==
    [i \in DOMAIN votos |->
        [letra |-> ListaLetras[i], nombre |-> "Pacto " \o ListaLetras[i],
         total_votos |-> votos[i]]]

EntradasPactos ==
    {[pactos |-> PactosConVotos(v), escanos |-> e] :
        v \in UNION {[1..n -> 0..MaxVotosPacto] :
                        n \in 0..Min(MaxPactos, Len(ListaLetras))},
        e \in 1..MaxEscanos}

InitPactos ==
    /\ pc = "inicio"
    /\ entrada \in EntradasPactos
    /\ resultado = None
    /\ RecorridoInactivo
    /\ NacionalInactivo

LlamarAplicarDhondtEntrePactos ==
    /\ pc = "inicio"
    /\ resultado' = AplicarDhondtEntrePactos(entrada.pactos, entrada.escanos)
    /\ pc' = "hecho"
    /\ UNCHANGED <<entrada, varsRecorrido, varsNacional>>

NextPactos == LlamarAplicarDhondtEntrePactos

SpecPactos == InitPactos /\ [][NextPactos]_vars

(***************************************************************************)
(* SpecInterno: one call of calcular_dhondt_interno_pacto, the walk over   *)
(* the sorted quotients taken one loop iteration at a time.                *)
(***************************************************************************)
Cupos == {"", "P", "Q"}

EntradasInterno ==
    {[candidatos |-> c, escanos_pacto |-> e] :
        c \in UNION {[1..n -> [votos : 0..MaxVotos, cupo : Cupos]] : n \in 1..MaxPool},
        e \in 1..MaxEscanos}

InitInterno ==
    /\ pc = "inicio"
    /\ entrada \in EntradasInterno
    /\ resultado = None
    /\ RecorridoInactivo
    /\ NacionalInactivo

\* lines 351-388: group, sort, build and sort the quotients
PrepararRecorrido ==
    /\ pc = "inicio"
    /\ partidos_list' = PartidosList(entrada.candidatos)
    /\ coeficientes' = CoeficientesInternos(partidos_list', entrada.escanos_pacto)
    /\ i_coef' = 1
    /\ asignacion_final' = AsignacionVacia
    /\ escanos_asignados' = 0
    /\ pc' = "recorrido"
    /\ UNCHANGED <<entrada, resultado, varsNacional>>

EnRecorrido ==
    /\ pc = "recorrido"
    /\ i_coef <= Len(coeficientes)
    /\ escanos_asignados < entrada.escanos_pacto

\* lines 394-397: the party still has a candidate for the seat
AsignarEscano ==
    /\ EnRecorrido
    /\ PartidoConCupoLibre(asignacion_final, coeficientes[i_coef])
    /\ asignacion_final' = SumarEscano(asignacion_final, coeficientes[i_coef].partido)
    /\ escanos_asignados' = escanos_asignados + 1
    /\ i_coef' = i_coef + 1
    /\ UNCHANGED <<varsLlamada, coeficientes, partidos_list, varsNacional>>

\* line 395 false: the quotient is passed over
SaltarCoeficiente ==
    /\ EnRecorrido
    /\ ~PartidoConCupoLibre(asignacion_final, coeficientes[i_coef])
    /\ i_coef' = i_coef + 1
    /\ UNCHANGED <<varsLlamada, coeficientes, asignacion_final,
                   escanos_asignados, partidos_list, varsNacional>>

\* line 391 break, or the list is exhausted; line 399
TerminarRecorrido ==
    /\ pc = "recorrido"
    /\ ~EnRecorrido
    /\ resultado' = [asignacion_final |-> asignacion_final,
                     partidos_list |-> partidos_list]
    /\ pc' = "hecho"
    /\ UNCHANGED <<entrada, varsRecorrido, varsNacional>>

NextInterno ==
    \/ PrepararRecorrido
    \/ AsignarEscano
    \/ SaltarCoeficiente
    \/ TerminarRecorrido

SpecInterno == InitInterno /\ [][NextInterno]_vars

(***************************************************************************)
(* SpecDistrito: one call of calcular_dhondt_distrito (or, as              *)
(* hemiciclo_nacional does, of calcular_dhondt_distrito_simulado) on a     *)
(* snapshot of the four sources.                                           *)
(***************************************************************************)
Modos == {"normal", "derechas", "izquierdas"}
ModoDesconocido == "otro"

Partidos == {"P", "Q"}
CuposCsv == {"", "P"}
Sexos == {"M", "H"}
IdsApi == <<"c1", "c2">>

\* a metric that gives 100 to equal normalized names and 0 to the rest
MetricaExacta ==
    [par \in NombresNormalizados \X NombresNormalizados |->
        IF par[1] = par[2] THEN 100 ELSE 0]

TablaPactosNombre == [l \in {"A", "J"} |-> "Lista " \o l]

Entero(n) == [tipo |-> "int", valor |-> n]

\* a seat count written in the configuration as the string "2"
EscanosComoTexto == [tipo |-> "str", valor |-> 2]

ConfigOk(escanos, valor_uf) ==
    [tipo |-> "ok", escanos |-> escanos, pactos_nombre |-> TablaPactosNombre,
     valor_uf |-> valor_uf]

\* the roster rows a district may have for one name: none, or one row
FilasDe(name, id_foto) ==
    {<<>>} \cup {<<[name |-> name, cupo |-> cu, pacto_letra |-> l,
                    id_foto |-> id_foto]>> : cu \in CuposCsv, l \in LetrasPacto}

\* feed entries and their tally, one per feed id, the tally keyed by feed id
DatosCandidato == [n : NombresApi, c : Partidos, s : Sexos, votos : 1..MaxVotos]

\* names are interchangeable: the first entry is taken to be "Ana"
Feeds ==
    {feed \in UNION {[1..n -> DatosCandidato] : n \in 0..Len(IdsApi)} :
        feed = <<>> \/ feed[1].n = "Ana"}

\* the rosters that matter to a feed: a row for a name no entry has changes
\* nothing
RostersDe(feed) ==
    {a \o b : a \in FilasDe("ANA", "f1"),
              b \in IF \E i \in DOMAIN feed : feed[i].n = "Luz"
                    THEN FilasDe("Sra Luz", "") ELSE {<<>>}}

ApiDe(feed) ==
    [tipo |-> "ok",
     c |-> [i \in DOMAIN feed |->
              [id |-> IdsApi[i], n |-> feed[i].n, c |-> feed[i].c, s |-> feed[i].s]],
     h |-> <<>>]

XmlDe(feed) ==
    [tipo |-> "ok",
     votos |-> [i \in DOMAIN feed |-> [id |-> IdsApi[i], votos |-> feed[i].votos]]]

Snapshot(modo, config, csv, api, xml) ==
    [distrito |-> "6001", mode |-> modo, config |-> config, csv |-> csv,
     api |-> api, xml |-> xml, similitud |-> MetricaExacta]

\* a fixed district with two matched candidates, for the snapshots in which
\* something goes wrong
FeedFijo == <<[n |-> "Ana", c |-> "P", s |-> "M", votos |-> 2],
              [n |-> "Luz", c |-> "Q", s |-> "H", votos |-> 1]>>

RosterFijo ==
    [tipo |-> "ok",
     filas |-> <<[name |-> "ANA", cupo |-> "P", pacto_letra |-> "J", id_foto |-> "f1"],
                 [name |-> "Sra Luz", cupo |-> "", pacto_letra |-> "A", id_foto |-> ""]>>]

ConfigsConFalla ==
    {Excepcion} \cup
    {ConfigOk(e, v) :
        e \in {None, Entero(0), Entero(1), Entero(2), EscanosComoTexto},
        v \in {None, Entero(3)}}

\* every source loads and the seat count is a positive integer
EntradaSana ==
    \E m \in Modos, e \in 1..MaxEscanosDistrito, feed \in Feeds :
        \E r \in RostersDe(feed) :
            entrada = Snapshot(m, ConfigOk(Entero(e), None),
                               [tipo |-> "ok", filas |-> r], ApiDe(feed), XmlDe(feed))

\* one thing or several go wrong: a load raises, the seat count is missing,
\* 0 or not an integer, a source is empty, the mode is unknown
EntradaConFalla ==
    \E m \in Modos \cup {ModoDesconocido}, c \in ConfigsConFalla,
       csv \in {Excepcion, RosterFijo, [tipo |-> "ok", filas |-> <<>>]},
       api \in {Excepcion, ApiDe(FeedFijo), ApiDe(<<>>)},
       xml \in {Excepcion, XmlDe(FeedFijo), XmlDe(<<>>)} :
        entrada = Snapshot(m, c, csv, api, xml)

InitDistrito ==
    /\ pc = "inicio"
    /\ EntradaSana \/ EntradaConFalla
    /\ resultado = None
    /\ RecorridoInactivo
    /\ NacionalInactivo

LlamarCalcularDhondtDistrito ==
    /\ pc = "inicio"
    /\ resultado' = CalcularDhondtDistrito(entrada, entrada.mode)
    /\ pc' = "hecho"
    /\ UNCHANGED <<entrada, varsRecorrido, varsNacional>>

\* hemiciclo_nacional, line 889: the simulated function called directly
LlamarCalcularDhondtDistritoSimulado ==
    /\ pc = "inicio"
    /\ entrada.mode # "normal"
    /\ resultado' = CalcularDhondtDistritoSimulado(entrada, entrada.mode)
    /\ pc' = "hecho"
    /\ UNCHANGED <<entrada, varsRecorrido, varsNacional>>

NextDistrito ==
    \/ LlamarCalcularDhondtDistrito
    \/ LlamarCalcularDhondtDistritoSimulado

SpecDistrito == InitDistrito /\ [][NextDistrito]_vars

(***************************************************************************)
(* SpecRepetir: calcular_dhondt_distrito called twice for the same         *)
(* district and mode while the sources do not change (the second call is   *)
(* served from the caches).                                                *)
(***************************************************************************)
PrimeraLlamada ==
    /\ pc = "inicio"
    /\ resultado' = CalcularDhondtDistrito(entrada, entrada.mode)
    /\ pc' = "primera"
    /\ UNCHANGED <<entrada, varsRecorrido, varsNacional>>

\* historial keeps what the first call returned
SegundaLlamada ==
    /\ pc = "primera"
    /\ historial' = <<resultado>>
    /\ resultado' = CalcularDhondtDistrito(entrada, entrada.mode)
    /\ pc' = "segunda"
    /\ UNCHANGED <<entrada, varsRecorrido, mode, distrito_num, estadisticas,
                   todos_electos, resultados_por_distrito_normal,
                   resultados_por_distrito_simulado>>

NextRepetir ==
    \/ PrimeraLlamada
    \/ SegundaLlamada

SpecRepetir == InitDistrito /\ [][NextRepetir]_vars

(***************************************************************************)
(* SpecFusion: one call of fusionar_pactos_en_candidatos.                  *)
(***************************************************************************)
LetrasCandidato == {"A", "J", "K", "X"}

\* a canonical candidate as the reconciler builds it: "X" is the letter of
\* a candidate without a confident match
CandidatoCanonico(i, letra, votos) ==
    [id_api |-> "c" \o ToString(i),
     votos |-> votos,
     nombre |-> "Candidato " \o ToString(i),
     partido |-> "P",
     pacto_letra |-> letra,
     pacto_nombre |-> PactoNombre(TablaPactosNombre, letra),
     sexo |-> IF i % 2 = 1 THEN "M" ELSE "H",
     cupo |-> IF letra = "X" THEN "" ELSE "P",
     foto |-> SinFoto,
     match_quality |-> IF letra = "X" THEN 0 ELSE 100,
     match_exitoso |-> letra # "X"]

InitFusion ==
    /\ pc = "inicio"
    /\ \E n \in 0..MaxLista :
        \E letras \in [1..n -> LetrasCandidato], votos \in [1..n -> 1..MaxVotos],
           m \in Modos \cup {ModoDesconocido} :
            entrada = [candidatos |-> [i \in 1..n |->
                                         CandidatoCanonico(i, letras[i], votos[i])],
                       mode |-> m]
    /\ resultado = None
    /\ RecorridoInactivo
    /\ NacionalInactivo

LlamarFusionarPactosEnCandidatos ==
    /\ pc = "inicio"
    /\ resultado' = [tipo |-> "lista",
                     candidatos |-> FusionarPactosEnCandidatos(entrada.candidatos,
                                                               entrada.mode)]
    /\ pc' = "hecho"
    /\ UNCHANGED <<entrada, varsRecorrido, varsNacional>>

NextFusion == LlamarFusionarPactosEnCandidatos

SpecFusion == InitFusion /\ [][NextFusion]_vars

(***************************************************************************)
(* SpecNacional: one request to hemiciclo_nacional.  Each iteration of the *)
(* loop over the districts is one step.                                    *)
(***************************************************************************)
TotalDistritos == 28

Digitos == <<"0", "1", "2", "3", "4", "5", "6", "7", "8", "9">>

\* f"60{distrito_num:02d}"
DistritoId(n) == "60" \o Digitos[(n \div 10) + 1] \o Digitos[(n % 10) + 1]

EstadisticasIniciales ==
    [total_escanos |-> 0, total_mujeres |-> 0, pactos |-> <<>>,
     distritos_procesados |-> 0, distritos_por_pacto |-> [l \in {} |-> {}]]

\* line 891
ResultadoAUsar(modo, resultado_normal, resultado_simulado) ==
    IF modo # "normal" /\ resultado_simulado # None
    THEN resultado_simulado
    ELSE resultado_normal

\* lines 924-931
CandidatoConDistrito(candidato, pacto, distrito_id, num) ==
    [nombre |-> candidato.nombre, cupo |-> candidato.cupo,
     partido |-> candidato.partido, votos |-> candidato.votos,
     sexo |-> candidato.sexo, foto |-> candidato.foto,
     distrito |-> distrito_id, distrito_numero |-> num,
     pacto_nombre |-> pacto.nombre, pacto_letra |-> pacto.letra]

\* lines 903-933: what one coalition entry of the district adds; "pactos"
\* is the dictionary estadisticas["pactos"] in insertion order
AcumularPacto(ac, pacto, distrito_id, num) ==
    LET letra == pacto.letra
        conocidos == IF \E k \in DOMAIN ac.pactos : ac.pactos[k].letra = letra
                     THEN ac.pactos
                     ELSE Append(ac.pactos,
                                 [letra |-> letra, nombre |-> pacto.nombre,
                                  escanos_totales |-> 0, mujeres_totales |-> 0,
                                  bonificacion_total |-> 0,
                                  candidatos_electos |-> <<>>])
        dpp == ac.distritos_por_pacto
        nuevos == [i \in DOMAIN pacto.candidatos_electos |->
                      CandidatoConDistrito(pacto.candidatos_electos[i], pacto,
                                           distrito_id, num)]
    IN  [pactos |->
            [k \in DOMAIN conocidos |->
                IF conocidos[k].letra = letra
                THEN [conocidos[k] EXCEPT
                        !.escanos_totales = @ + pacto.escanos,
                        !.mujeres_totales = @ + pacto.mujeres_electas,
                        !.bonificacion_total = @ + pacto.bonificacion,
                        !.candidatos_electos = @ \o nuevos]
                ELSE conocidos[k]],
         distritos_por_pacto |->
            IF pacto.escanos > 0
            THEN [l \in DOMAIN dpp \cup {letra} |->
                    (IF l \in DOMAIN dpp THEN dpp[l] ELSE {})
                    \cup (IF l = letra THEN {distrito_id} ELSE {})]
            ELSE dpp,
         todos_electos |-> ac.todos_electos \o nuevos]

\* for pacto in resultado_a_usar["pactos"]
RECURSIVE AcumularPactos(_, _, _, _)
AcumularPactos(ac, pactos, distrito_id, num) ==
    IF pactos = <<>> THEN ac
    ELSE AcumularPactos(AcumularPacto(ac, Head(pactos), distrito_id, num),
                        Tail(pactos), distrito_id, num)

\* len(estadisticas["distritos_por_pacto"].get(letra, set()))
DistritosGanados(dpp, letra) ==
    IF letra \in DOMAIN dpp THEN Cardinality(dpp[letra]) ELSE 0

\* lines 940-956 (porcentaje_nacional, a rounded float, is left out)
PactosFinal(est) ==
    LET lista == [k \in DOMAIN est.pactos |->
                    [letra |-> est.pactos[k].letra,
                     nombre |-> est.pactos[k].nombre,
                     escanos_totales |-> est.pactos[k].escanos_totales,
                     mujeres_totales |-> est.pactos[k].mujeres_totales,
                     bonificacion_total |-> est.pactos[k].bonificacion_total,
                     distritos_ganados |->
                        DistritosGanados(est.distritos_por_pacto,
                                         est.pactos[k].letra),
                     candidatos_electos |-> est.pactos[k].candidatos_electos]]
    IN  SortDesc(lista, [i \in DOMAIN lista |-> [j \in DOMAIN lista |->
            lista[i].escanos_totales > lista[j].escanos_totales]])

\* lines 958-974 (porcentaje_mujeres, requested_by and audit_timestamp are
\* left out)
ResultadoFinal(modo, est, electos) ==
    [success |-> TRUE,
     mode |-> modo,
     total_distritos |-> TotalDistritos,
     distritos_procesados |-> est.distritos_procesados,
     distritos_error |-> TotalDistritos - est.distritos_procesados,
     estadisticas_nacionales |->
        [total_escanos |-> est.total_escanos,
         total_diputados |-> Len(electos),
         total_mujeres |-> est.total_mujeres],
     pactos_nacionales |-> PactosFinal(est),
     diputados_electos |-> electos]

\* the districts that have data during the run: the first one and the last
\* ones; the configuration has no seat count for the others
DistritosConDatos ==
    {1} \cup {TotalDistritos - k : k \in 0..(MaxDistritosConDatos - 2)}

FeedNacional == <<[n |-> "Ana", c |-> "P", s |-> "M", votos |-> 2],
                  [n |-> "Luz", c |-> "P", s |-> "H", votos |-> 1]>>

RostersNacionales ==
    {[tipo |-> "ok",
      filas |-> <<[name |-> "ANA", cupo |-> "P", pacto_letra |-> "J",
                   id_foto |-> "f1"],
                  [name |-> "Sra Luz", cupo |-> "P", pacto_letra |-> l,
                   id_foto |-> ""]>>] : l \in {"A", "K"}}

FuentesDeDistrito(n) ==
    IF n \in DistritosConDatos
    THEN {[Snapshot("normal", ConfigOk(Entero(e), None), r,
                    ApiDe(FeedNacional), XmlDe(FeedNacional))
            EXCEPT !.distrito = DistritoId(n)] :
            e \in 1..MaxEscanosDistrito, r \in RostersNacionales}
    ELSE {[Snapshot("normal", ConfigOk(None, None),
                    [tipo |-> "ok", filas |-> <<>>], ApiDe(<<>>), XmlDe(<<>>))
            EXCEPT !.distrito = DistritoId(n)]}

\* every call loads the sources again through caches that expire (60 s for
\* the tally): a fetch can raise in one call of an iteration and not in the
\* other
ConFalla(f, falla) == IF falla THEN [f EXCEPT !.xml = Excepcion] ELSE f

InitNacional ==
    /\ pc = "inicio"
    /\ \E m \in Modos \cup {ModoDesconocido},
          c \in {ConfigOk(None, None), Excepcion} :
            entrada = [mode |-> m, config |-> c]
    /\ resultado = None
    /\ RecorridoInactivo
    /\ NacionalInactivo

\* lines 863-877
IniciarHemiciclo ==
    /\ pc = "inicio"
    /\ entrada.config # Excepcion
    /\ mode' = entrada.mode
    /\ estadisticas' = EstadisticasIniciales
    /\ distrito_num' = 1
    /\ pc' = "bucle"
    /\ UNCHANGED <<entrada, resultado, varsRecorrido, todos_electos,
                   resultados_por_distrito_normal,
                   resultados_por_distrito_simulado, historial>>

\* lines 977-981: the configuration cannot be loaded
FallarHemiciclo ==
    /\ pc = "inicio"
    /\ entrada.config = Excepcion
    /\ resultado' = [success |-> FALSE]
    /\ pc' = "error"
    /\ UNCHANGED <<entrada, varsRecorrido, varsNacional>>

\* an iteration that stops the loop at a district without a result
DistritoSinResultadoInterrumpe ==
    /\ pc = "bucle"
    /\ distrito_num <= TotalDistritos
    /\ \E f \in FuentesDeDistrito(distrito_num), falla \in BOOLEAN :
        /\ CalcularDhondtDistrito(ConFalla(f, falla), "normal") = None
        /\ historial' = Append(historial, [distrito |-> f.distrito,
                                           normal |-> None, simulado |-> None])
    /\ distrito_num' = TotalDistritos + 1
    /\ UNCHANGED <<varsLlamada, varsRecorrido, mode, estadisticas, todos_electos,
                   resultados_por_distrito_normal,
                   resultados_por_distrito_simulado>>

\* lines 879-885: "if not resultado_normal: continue"
DistritoSinResultado ==
    /\ pc = "bucle"
    /\ distrito_num <= TotalDistritos
    /\ \E f \in FuentesDeDistrito(distrito_num), falla \in BOOLEAN :
        /\ CalcularDhondtDistrito(ConFalla(f, falla), "normal") = None
        /\ historial' = Append(historial, [distrito |-> f.distrito,
                                           normal |-> None, simulado |-> None])
    /\ distrito_num' = distrito_num + 1
    /\ UNCHANGED <<varsLlamada, varsRecorrido, mode, estadisticas, todos_electos,
                   resultados_por_distrito_normal,
                   resultados_por_distrito_simulado>>

\* lines 879-933: an iteration whose normal computation gives a result
DistritoProcesado ==
    /\ pc = "bucle"
    /\ distrito_num <= TotalDistritos
    /\ \E f \in FuentesDeDistrito(distrito_num),
          falla_normal \in BOOLEAN, falla_simulado \in BOOLEAN :
        \E resultado_normal \in
                {CalcularDhondtDistrito(ConFalla(f, falla_normal), "normal")},
           resultado_simulado \in
                {IF mode # "normal"
                 THEN CalcularDhondtDistritoSimulado(ConFalla(f, falla_simulado),
                                                     mode)
                 ELSE None} :
            /\ resultado_normal # None
            /\ \E resultado_a_usar \in
                    {ResultadoAUsar(mode, resultado_normal, resultado_simulado)} :
                \E ac \in {AcumularPactos(
                              [pactos |-> estadisticas.pactos,
                               distritos_por_pacto |->
                                   estadisticas.distritos_por_pacto,
                               todos_electos |-> todos_electos],
                              resultado_a_usar.pactos, f.distrito,
                              distrito_num)} :
                    /\ estadisticas' =
                        [total_escanos |->
                            estadisticas.total_escanos + resultado_a_usar.escanos,
                         total_mujeres |->
                            estadisticas.total_mujeres
                            + resultado_a_usar.resumen_mujeres.total_mujeres_electas,
                         pactos |-> ac.pactos,
                         distritos_procesados |->
                            estadisticas.distritos_procesados + 1,
                         distritos_por_pacto |-> ac.distritos_por_pacto]
                    /\ todos_electos' = ac.todos_electos
            /\ resultados_por_distrito_normal' =
                    Append(resultados_por_distrito_normal, resultado_normal)
            /\ resultados_por_distrito_simulado' =
                    IF resultado_simulado # None
                    THEN Append(resultados_por_distrito_simulado,
                                resultado_simulado)
                    ELSE resultados_por_distrito_simulado
            /\ historial' = Append(historial,
                                   [distrito |-> f.distrito,
                                    normal |-> resultado_normal,
                                    simulado |-> resultado_simulado])
    /\ distrito_num' = distrito_num + 1
    /\ UNCHANGED <<varsLlamada, varsRecorrido, mode>>

\* lines 938-975
FinalizarHemiciclo ==
    /\ pc = "bucle"
    /\ distrito_num > TotalDistritos
    /\ todos_electos' = SortPorVotosDesc(todos_electos)
    /\ resultado' = ResultadoFinal(mode, estadisticas, todos_electos')
    /\ pc' = "hecho"
    /\ UNCHANGED <<entrada, varsRecorrido, mode, distrito_num, estadisticas,
                   resultados_por_distrito_normal,
                   resultados_por_distrito_simulado, historial>>

NextNacional ==
    \/ IniciarHemiciclo
    \/ FallarHemiciclo
    \/ DistritoSinResultado
    \/ DistritoProcesado
    \/ FinalizarHemiciclo

SpecNacional == InitNacional /\ [][NextNacional]_vars

(***************************************************************************)
(* SpecIntegrar: one call of integrar_tres_fuentes_limpio, or one call of  *)
(* hacer_match_por_nombre, over the sources of a district.                 *)
(***************************************************************************)
\* scores around the two thresholds of the matcher
Puntajes == {0, 49, 50, 79, 80, 100}

\* an arbitrary metric on the names of the universe, given by its four scores
Metrica(aa, al, la, ll) ==
    [par \in NombresNormalizados \X NombresNormalizados |->
        CASE par = <<"ana", "ana">> -> aa
          [] par = <<"ana", "luz">> -> al
          [] par = <<"luz", "ana">> -> la
          [] par = <<"luz", "luz">> -> ll
          [] OTHER -> 0]

FilaCsv(name, letra) ==
    [name |-> name, cupo |-> "P", pacto_letra |-> letra,
     id_foto |-> IF name = "ANA" THEN "f1" ELSE ""]

RostersIntegrar ==
    {<<>>} \cup {<<FilaCsv("ANA", l)>> : l \in {"A", "J"}}
           \cup {<<FilaCsv("ANA", l), FilaCsv("Sra Luz", "K")>> : l \in {"A", "J"}}

EntradaApi(id, n) ==
    [id |-> id, n |-> n, c |-> "P", s |-> IF n = "Ana" THEN "M" ELSE "H"]

\* the feed's candidate mapping "c"; an entry may lack its name
FeedsIntegrar ==
    {<<>>} \cup {<<EntradaApi("c1", n1)>> : n1 \in {"Ana", ""}}
           \cup {<<EntradaApi("c1", n1), EntradaApi("c2", n2)>> :
                    n1 \in {"Ana", ""}, n2 \in {"Luz", "Ana"}}

\* the feed's ordered list "h", by name
ListasOrdenadas == {<<>>, <<"Ana">>, <<"Luz", "Ana">>}

\* tally keys: a positional letter, feed ids, a key of no candidate
ClavesXml == {"A", "c1", "c2", "zz"}

\* the tally mapping: distinct keys, votes from 0
TalliesIntegrar ==
    {<<>>}
    \cup {<<[id |-> k, votos |-> v]>> : k \in ClavesXml, v \in 0..MaxVotos}
    \cup {t \in {<<[id |-> k1, votos |-> v1], [id |-> k2, votos |-> v2]>> :
                    k1 \in ClavesXml, k2 \in ClavesXml,
                    v1 \in 0..MaxVotos, v2 \in 0..MaxVotos} :
            t[1].id # t[2].id}

SnapshotIntegrar(config, csv, api, xml, similitud) ==
    [distrito |-> "6001", mode |-> "normal", config |-> config, csv |-> csv,
     api |-> api, xml |-> xml, similitud |-> similitud]

\* the three sources load; tally keys, the positional mapping and the vote
\* counts vary
EntradaIdentidades ==
    \E r \in RostersIntegrar, c \in FeedsIntegrar, h \in ListasOrdenadas,
       v \in TalliesIntegrar :
        entrada = SnapshotIntegrar(ConfigOk(Entero(1), None),
                                   [tipo |-> "ok", filas |-> r],
                                   [tipo |-> "ok", c |-> c, h |-> h],
                                   [tipo |-> "ok", votos |-> v],
                                   MetricaExacta)

\* the three sources load; the roster and the metric vary
EntradaSimilitud ==
    \E r \in RostersIntegrar, aa \in Puntajes, al \in Puntajes,
       la \in Puntajes, ll \in Puntajes :
        entrada = SnapshotIntegrar(ConfigOk(Entero(1), None),
                                   [tipo |-> "ok", filas |-> r],
                                   [tipo |-> "ok",
                                    c |-> <<EntradaApi("c1", "Ana"),
                                            EntradaApi("c2", "Luz")>>,
                                    h |-> <<>>],
                                   [tipo |-> "ok",
                                    votos |-> <<[id |-> "c1", votos |-> 2],
                                                [id |-> "c2", votos |-> 1]>>],
                                   Metrica(aa, al, la, ll))

\* a load raises
EntradaIntegrarConFalla ==
    \E config \in {Excepcion, ConfigOk(Entero(1), None)},
       csv \in {Excepcion, RosterFijo, [tipo |-> "ok", filas |-> <<>>]},
       api \in {Excepcion, ApiDe(FeedFijo)},
       xml \in {Excepcion, XmlDe(FeedFijo)} :
        /\ Excepcion \in {config, csv, api, xml}
        /\ entrada = SnapshotIntegrar(config, csv, api, xml, MetricaExacta)

InitIntegrar ==
    /\ pc = "inicio"
    /\ EntradaIdentidades \/ EntradaSimilitud \/ EntradaIntegrarConFalla
    /\ resultado = None
    /\ RecorridoInactivo
    /\ NacionalInactivo

LlamarIntegrarTresFuentesLimpio ==
    /\ pc = "inicio"
    /\ resultado' = IntegrarTresFuentesLimpio(entrada)
    /\ pc' = "integrado"
    /\ UNCHANGED <<entrada, varsRecorrido, varsNacional>>

\* hacer_match_por_nombre(nombre_api, candidatos_csv) over the roster rows of
\* the district
LlamarHacerMatchPorNombre ==
    /\ pc = "inicio"
    /\ entrada.csv # Excepcion
    /\ \E nombre_api \in NombresApi \cup {""} :
        \E m \in {HacerMatchPorNombre(nombre_api, entrada.csv.filas,
                                      entrada.similitud)} :
            resultado' = [tipo |-> "match", nombre_api |-> nombre_api,
                          candidato |-> m.candidato, score |-> m.score]
    /\ pc' = "comparado"
    /\ UNCHANGED <<entrada, varsRecorrido, varsNacional>>

NextIntegrar ==
    \/ LlamarIntegrarTresFuentesLimpio
    \/ LlamarHacerMatchPorNombre

SpecIntegrar == InitIntegrar /\ [][NextIntegrar]_vars

(***************************************************************************)
(* SpecCoaliciones: one district call over districts of three candidates,  *)
(* where a coalition can overtake, with two candidates, the coalition of   *)
(* the most voted one.                                                     *)
(***************************************************************************)
IdsApiTres == <<"c1", "c2", "c3">>

FeedsTres == [DOMAIN IdsApiTres -> [n : NombresApi, votos : 1..MaxVotos]]

ApiTres(feed) ==
    [tipo |-> "ok",
     c |-> [i \in DOMAIN feed |->
              [id |-> IdsApiTres[i], n |-> feed[i].n, c |-> "P",
               s |-> IF feed[i].n = "Ana" THEN "M" ELSE "H"]],
     h |-> <<>>]

XmlTres(feed) ==
    [tipo |-> "ok",
     votos |-> [i \in DOMAIN feed |->
                  [id |-> IdsApiTres[i], votos |-> feed[i].votos]]]

\* a row for "ANA"; a row for "Sra Luz" or none
RostersTres ==
    {<<FilaCsv("ANA", l1)>> : l1 \in LetrasPacto}
    \cup {<<FilaCsv("ANA", l1), FilaCsv("Sra Luz", l2)>> :
            l1 \in LetrasPacto, l2 \in LetrasPacto}

InitCoaliciones ==
    /\ pc = "inicio"
    /\ \E m \in Modos, e \in 1..MaxEscanosDistrito, feed \in FeedsTres,
          r \in RostersTres :
            entrada = Snapshot(m, ConfigOk(Entero(e), None),
                               [tipo |-> "ok", filas |-> r],
                               ApiTres(feed), XmlTres(feed))
    /\ resultado = None
    /\ RecorridoInactivo
    /\ NacionalInactivo

SpecCoaliciones == InitCoaliciones /\ [][NextDistrito]_vars

(***************************************************************************)
(* C6.  The sequential D'Hondt procedure: escanos rounds, each giving one   *)
(* seat to the coalition with the largest votes / (seats won + 1), the      *)
(* first in input order among equals.                                       *)
(***************************************************************************)
GanadorDeRonda(votos, ganados) ==
    CHOOSE i \in DOMAIN votos :
        \A j \in DOMAIN votos :
            /\ votos[i] * (ganados[j] + 1) >= votos[j] * (ganados[i] + 1)
            /\ j < i => votos[i] * (ganados[j] + 1) > votos[j] * (ganados[i] + 1)

RECURSIVE DhondtSecuencial(_, _, _)
DhondtSecuencial(votos, ganados, rondas) ==
    IF rondas = 0 THEN ganados
    ELSE LET g == GanadorDeRonda(votos, ganados)
         IN  DhondtSecuencial(votos, [ganados EXCEPT ![g] = @ + 1], rondas - 1)

VotosDePactos(pactos) == [i \in DOMAIN pactos |-> pactos[i].total_votos]

\* C6: for a non-empty mapping of coalitions and S >= 1 seats, the top S of
\* the sorted quotient table gives every coalition exactly the seats the
\* sequential D'Hondt procedure (ties to the first in input order) gives it.
C6_TablaIgualSecuencial ==
    (pc = "hecho" /\ entrada.pactos # <<>>) =>
        LET sec == DhondtSecuencial(VotosDePactos(entrada.pactos),
                                    [i \in DOMAIN entrada.pactos |-> 0],
                                    entrada.escanos)
        IN  \A i \in DOMAIN entrada.pactos :
                Get0(resultado.asignacion, entrada.pactos[i].letra) = sec[i]

\* a call where the last quotient a coalition won equals the next quotient
\* of another coalition: the tie decides who gets the seat
C6_Testigo ==
    /\ pc = "hecho"
    /\ \E i, j \in DOMAIN entrada.pactos :
        LET gi == Get0(resultado.asignacion, entrada.pactos[i].letra)
            gj == Get0(resultado.asignacion, entrada.pactos[j].letra)
        IN  /\ i # j
            /\ gi >= 1
            /\ entrada.pactos[i].total_votos > 0
            /\ entrada.pactos[i].total_votos * (gj + 1)
                   = entrada.pactos[j].total_votos * gi

(***************************************************************************)
(* C3.                                                                     *)
(***************************************************************************)
CandidatosDeCupo(candidatos, p) ==
    Cardinality({i \in DOMAIN candidatos : ClaveCupo(candidatos[i]) = p})

\* C3: at every step of the quotient walk and in the returned assignment no
\* party holds more seats than it has candidates; the quotients are walked
\* in descending order and a full party's quotient is passed over without
\* ending the walk, so the walk gives min(seats, candidates) seats.
C3_PartidoNoExcedeCandidatos ==
    (pc \in {"recorrido", "hecho"}) =>
        /\ \A p \in DOMAIN asignacion_final :
              asignacion_final[p] <= CandidatosDeCupo(entrada.candidatos, p)
        /\ \A k \in 1..(Len(coeficientes) - 1) :
              ~ValorMayor(coeficientes[k + 1], coeficientes[k])
        /\ escanos_asignados <= entrada.escanos_pacto
        /\ pc = "hecho" =>
              /\ resultado.asignacion_final = asignacion_final
              /\ escanos_asignados
                    = Min(entrada.escanos_pacto, Len(entrada.candidatos))
              /\ \A p \in DOMAIN resultado.asignacion_final :
                    resultado.asignacion_final[p]
                        <= CandidatosDeCupo(entrada.candidatos, p)

\* a finished walk that passed over a full party's quotient and then still
\* gave every seat
C3_Testigo ==
    /\ pc = "hecho"
    /\ escanos_asignados = entrada.escanos_pacto
    /\ i_coef - 1 > escanos_asignados

(***************************************************************************)
(* Claims about one district call (SpecDistrito).                          *)
(***************************************************************************)
\* something in the call fails: a load raises, the district has no seat
\* count, or the seat count is not an integer
FallaDistrito(f) ==
    \/ f.config = Excepcion
    \/ f.csv = Excepcion
    \/ f.api = Excepcion
    \/ f.xml = Excepcion
    \/ SinEscanos(f.config.escanos)
    \/ f.config.escanos.tipo # "int"

\* the reconciled candidates of the call's snapshot, as the allocation
\* receives them (after the fuser in a simulation mode)
CandidatosDeLaLlamada ==
    LET cs == IntegrarTresFuentesLimpio(entrada).candidatos
    IN  IF entrada.mode = "normal" THEN cs
        ELSE FusionarPactosEnCandidatos(cs, entrada.mode)

HayResultado == pc = "hecho" /\ resultado.tipo = "resultado"

Rango(s) == {s[i] : i \in DOMAIN s}

\* C1: the seats of all coalition entries of a district result (the field
\* total_diputados) sum to the district's configured seat count, whatever
\* the reconciled candidate list is.
C1_EscanosSumanConfigurado ==
    HayResultado =>
        /\ resultado.total_diputados = entrada.config.escanos.valor
        /\ Suma([k \in DOMAIN resultado.pactos |-> resultado.pactos[k].escanos])
              = entrada.config.escanos.valor

\* C2: a district whose tally yields no vote entries gets None.
C2_SinVotosDaNone ==
    (pc = "hecho" /\ entrada.xml # Excepcion /\ entrada.xml.votos = <<>>) =>
        resultado = None

\* the votes of the n best of a list of candidates
MejoresVotos(cands, n) ==
    LET orden == SortPorVotosDesc(cands)
    IN  [i \in 1..Min(n, Len(orden)) |-> orden[i].votos]

\* C4: in every coalition that won seats, the elected candidates of each
\* party (the parties of the Level-2 allocation: the "cupo" labels) are
\* exactly that party's top-N candidates by votes, N being the seats the
\* Level-2 allocation gave the party.
C4_ElectosSonLosMejoresDelPartido ==
    HayResultado =>
        \A k \in DOMAIN resultado.pactos :
            LET pr == resultado.pactos[k]
                pool == SelectSeq(CandidatosDeLaLlamada,
                            LAMBDA c : c.match_exitoso /\ c.pacto_letra = pr.letra)
                asig == CalcularDhondtInternoPacto(
                            PactoInfoParaDhondt(PartidosInfo(pool)),
                            pr.escanos).asignacion_final
            IN  pr.escanos > 0 =>
                    \A p \in {ClaveCupo(pool[i]) : i \in DOMAIN pool} :
                        VotosDe(SelectSeq(pr.candidatos_electos,
                                          LAMBDA e : ClaveCupo(e) = p))
                          = MejoresVotos(SelectSeq(pool, LAMBDA c : ClaveCupo(c) = p),
                                         Get0(asig, p))

\* C5: a candidate with match-success = false takes no part in the
\* allocation, in normal mode and in every simulation mode: the coalition
\* entries are exactly the coalitions of the match-successful candidates,
\* each total is the sum of their votes only, and every elected candidate
\* is one of them.
C5_SinMatchNoParticipa ==
    HayResultado =>
        LET cs == CandidatosDeLaLlamada
            validos == SelectSeq(cs, LAMBDA c : c.match_exitoso)
            fuera == SelectSeq(cs, LAMBDA c : ~c.match_exitoso)
            ps == resultado.pactos
        IN  /\ {ps[k].letra : k \in DOMAIN ps} = {validos[i].pacto_letra : i \in DOMAIN validos}
            /\ \A k \in DOMAIN ps :
                /\ ps[k].total_votos
                     = Suma(VotosDe(SelectSeq(validos,
                                LAMBDA c : c.pacto_letra = ps[k].letra)))
                /\ \A j \in DOMAIN ps[k].candidatos_electos :
                     LET e == ps[k].candidatos_electos[j]
                     IN  /\ \E i \in DOMAIN validos :
                               /\ validos[i].pacto_letra = ps[k].letra
                               /\ validos[i].nombre = e.nombre
                               /\ validos[i].votos = e.votos
                         /\ \A i \in DOMAIN fuera : fuera[i].nombre # e.nombre

\* a result of a simulation mode for a district that has an unmatched
\* candidate with votes beside a matched, elected one
C5_Testigo ==
    /\ HayResultado
    /\ entrada.mode = "derechas"
    /\ \E i \in DOMAIN CandidatosDeLaLlamada :
          /\ ~CandidatosDeLaLlamada[i].match_exitoso
          /\ CandidatosDeLaLlamada[i].votos > 0
    /\ \E k \in DOMAIN resultado.pactos :
          /\ resultado.pactos[k].letra = "JK"
          /\ resultado.pactos[k].candidatos_electos # <<>>

CamposDeResultado ==
    {"tipo", "distrito", "escanos", "pactos", "total_diputados", "resumen_mujeres"}

CamposDePacto ==
    {"nombre", "letra", "total_votos", "escanos", "candidatos_electos",
     "mujeres_electas", "bonificacion"}

\* a district result with nothing missing: every field, and one entry with
\* every field for each coalition of the candidates that take part
ResultadoCompleto(r) ==
    /\ DOMAIN r = CamposDeResultado
    /\ r.distrito = entrada.distrito
    /\ r.escanos = entrada.config.escanos.valor
    /\ r.resumen_mujeres.valor_uf = ValorUF(entrada.config)
    /\ \A k \in DOMAIN r.pactos : DOMAIN r.pactos[k] = CamposDePacto
    /\ \A i \in DOMAIN CandidatosDeLaLlamada :
          CandidatosDeLaLlamada[i].match_exitoso =>
            Cardinality({k \in DOMAIN r.pactos :
                r.pactos[k].letra = CandidatosDeLaLlamada[i].pacto_letra}) = 1

\* C7: no failure escapes calcular_dhondt_distrito and no partial result is
\* returned: it returns None when the district has no seat count or a load
\* or a step of the allocation fails, and a complete result otherwise, in
\* normal mode and in every simulation mode.
C7_FallaDaNoneSiNoCompleto ==
    pc = "hecho" =>
        IF FallaDistrito(entrada) THEN resultado = None
        ELSE resultado.tipo = "resultado" /\ ResultadoCompleto(resultado)

\* a call in a simulation mode whose tally load raises, with the other
\* sources and the seat count in order
C7_Testigo ==
    /\ pc = "hecho"
    /\ entrada.mode = "izquierdas"
    /\ entrada.xml = Excepcion
    /\ entrada.config # Excepcion
    /\ entrada.csv # Excepcion
    /\ entrada.api # Excepcion
    /\ ~SinEscanos(entrada.config.escanos)
    /\ entrada.config.escanos.tipo = "int"
    /\ resultado = None

(***************************************************************************)
(* Claims about the Coalition Fuser (SpecFusion).                          *)
(***************************************************************************)
\* C10: with mode "normal" the fuser is the identity: the same candidates,
\* in the same order, every field unchanged.
C10_NormalEsIdentidad ==
    (pc = "hecho" /\ entrada.mode = "normal") =>
        /\ Len(resultado.candidatos) = Len(entrada.candidatos)
        /\ \A i \in DOMAIN entrada.candidatos :
              resultado.candidatos[i] = entrada.candidatos[i]

\* a "normal" call on a list holding candidates that either fusion group
\* would rewrite
C10_Testigo ==
    /\ pc = "hecho"
    /\ entrada.mode = "normal"
    /\ \E i, j \in DOMAIN entrada.candidatos :
          /\ entrada.candidatos[i].pacto_letra = "J"
          /\ entrada.candidatos[j].pacto_letra = "A"
    /\ Len(resultado.candidatos) >= 2

(***************************************************************************)
(* Claims about the National Aggregator (SpecNacional).                    *)
(***************************************************************************)
\* the visited districts that computed / gave no result
Computados == {i \in DOMAIN historial : historial[i].normal # None}

SinResultado == {i \in DOMAIN historial : historial[i].normal = None}

\* C8: the loop visits every district of the fixed set whatever the earlier
\* ones gave: a district without a result is skipped and the loop goes on;
\* at the end total_escanos is the sum of the seat counts of the districts
\* that computed, distritos_procesados is their number and distritos_error
\* is the number of districts that gave no result.
C8_RecorreTodosLosDistritos ==
    /\ pc = "bucle" =>
          \A i \in DOMAIN historial : historial[i].distrito = DistritoId(i)
    /\ pc = "hecho" =>
          /\ Len(historial) = TotalDistritos
          /\ \A i \in 1..TotalDistritos : historial[i].distrito = DistritoId(i)
          /\ resultado.estadisticas_nacionales.total_escanos =
                Suma([i \in DOMAIN historial |->
                        IF i \in Computados THEN historial[i].normal.escanos
                        ELSE 0])
          /\ resultado.distritos_procesados = Cardinality(Computados)
          /\ resultado.distritos_error = Cardinality(SinResultado)

\* a finished run in which a district computed, later ones gave no result
\* and a still later one computed
C8_Testigo ==
    /\ pc = "hecho"
    /\ \E i, j, k \in DOMAIN historial :
          /\ i < j /\ j < k
          /\ i \in Computados /\ j \in SinResultado /\ k \in Computados
    /\ resultado.distritos_procesados = 2
    /\ resultado.estadisticas_nacionales.total_escanos > 2

\* what a district adds to the totals of a coalition letter according to
\* one of its results
AportePacto(r, letra) ==
    LET suyos == SelectSeq(r.pactos, LAMBDA p : p.letra = letra)
    IN  [escanos |-> Suma([k \in DOMAIN suyos |-> suyos[k].escanos]),
         mujeres |-> Suma([k \in DOMAIN suyos |-> suyos[k].mujeres_electas]),
         bonificacion |-> Suma([k \in DOMAIN suyos |-> suyos[k].bonificacion])]

\* the fused result of a visited district, or an empty one if it has none
Fusionado(h) ==
    IF h.simulado # None THEN h.simulado
    ELSE [escanos |-> 0, pactos |-> <<>>,
          resumen_mujeres |-> [total_mujeres_electas |-> 0]]

\* C9: under a mode other than "normal" the seats, the elected-women count
\* and the per-coalition statistics a processed district adds to the national
\* totals come from the district's fused result, never from its unfused one,
\* and the unfused result is retained in the list of raw results.
C9_TotalesDelResultadoFusionado ==
    (pc \in {"bucle", "hecho"} /\ mode # "normal") =>
        LET hs == [i \in DOMAIN historial |->
                      IF i \in Computados THEN Fusionado(historial[i])
                      ELSE Fusionado([simulado |-> None])]
        IN  /\ estadisticas.total_escanos =
                  Suma([i \in DOMAIN hs |-> hs[i].escanos])
            /\ estadisticas.total_mujeres =
                  Suma([i \in DOMAIN hs |->
                          hs[i].resumen_mujeres.total_mujeres_electas])
            /\ \A k \in DOMAIN estadisticas.pactos :
                  LET e == estadisticas.pactos[k]
                  IN  /\ e.escanos_totales =
                            Suma([i \in DOMAIN hs |->
                                    AportePacto(hs[i], e.letra).escanos])
                      /\ e.mujeres_totales =
                            Suma([i \in DOMAIN hs |->
                                    AportePacto(hs[i], e.letra).mujeres])
                      /\ e.bonificacion_total =
                            Suma([i \in DOMAIN hs |->
                                    AportePacto(hs[i], e.letra).bonificacion])
            /\ resultados_por_distrito_normal =
                  [k \in 1..Cardinality(Computados) |->
                      historial[CHOOSE i \in Computados :
                                  Cardinality({j \in Computados : j <= i}) = k].normal]

\* the letters a mode fuses; a mode without a group fuses none
GrupoDeModo(modo) ==
    IF modo = "derechas" THEN {"J", "K"}
    ELSE IF modo = "izquierdas" THEN {"A", "B", "C", "D", "F", "G", "H"}
    ELSE {}

\* two candidates that differ at most in coalition letter and display name
IgualSalvoPacto(a, b) ==
    [a EXCEPT !.pacto_letra = "", !.pacto_nombre = ""]
        = [b EXCEPT !.pacto_letra = "", !.pacto_nombre = ""]

\* C11: for every candidate list and every mode tag the fuser returns a list
\* of the same length whose i-th candidate is the i-th input candidate with
\* only coalition letter and display name possibly rewritten, and rewritten
\* only when the input letter belongs to the mode's fusion group.
C11_SoloReescribePacto ==
    pc = "hecho" =>
        /\ Len(resultado.candidatos) = Len(entrada.candidatos)
        /\ \A i \in DOMAIN entrada.candidatos :
              /\ i \in DOMAIN resultado.candidatos
              /\ IgualSalvoPacto(resultado.candidatos[i], entrada.candidatos[i])
              /\ resultado.candidatos[i] # entrada.candidatos[i] =>
                    entrada.candidatos[i].pacto_letra \in GrupoDeModo(entrada.mode)

(***************************************************************************)
(* Claims about the Source Reconciler and the Name Matcher (SpecIntegrar). *)
(***************************************************************************)
\* the call of integrar_tres_fuentes_limpio returned a list
HayLista == pc = "integrado" /\ resultado # Excepcion

FuentesNoVacias ==
    /\ entrada.csv.filas # <<>>
    /\ entrada.api.c # <<>>
    /\ entrada.xml.votos # <<>>

\* the feed ids of the district
IdsDelFeed == {entrada.api.c[k].id : k \in DOMAIN entrada.api.c}

\* the feed id a tally key stands for, if any: through the positional
\* letter mapping, or the key itself when it is a feed id
ResuelveA(clave, id) ==
    LET mapeo == CrearMapeoIdsXmlAApi(entrada.api)
    IN  /\ id \in IdsDelFeed
        /\ \/ clave \in DOMAIN mapeo /\ mapeo[clave] = id
           \/ clave \notin DOMAIN mapeo /\ clave = id

\* C12: the returned list holds exactly one canonical candidate per feed id
\* that has a non-zero vote tally and resolves to a feed entry: no feed id
\* appears twice, and no entry with a zero vote tally appears.
C12_UnCandidatoPorIdConVotos ==
    (HayLista /\ FuentesNoVacias) =>
        LET cs == resultado.candidatos
            votos == entrada.xml.votos
        IN  /\ \A i, j \in DOMAIN cs : i # j => cs[i].id_api # cs[j].id_api
            /\ \A i \in DOMAIN cs : cs[i].votos # 0
            /\ {cs[i].id_api : i \in DOMAIN cs} =
                  {id \in IdsDelFeed :
                      \E k \in DOMAIN votos :
                          votos[k].votos # 0 /\ ResuelveA(votos[k].id, id)}

\* the three loads of lines 272-274 gave a value
FuentesCargadas ==
    /\ entrada.csv # Excepcion
    /\ entrada.api # Excepcion
    /\ entrada.xml # Excepcion

\* C13: when the roster has no rows for the district, or the feed has no
\* candidate mapping, or the tally mapping is empty, the reconciler returns
\* the empty list without failing; when the three are non-empty every
\* returned candidate comes from a tally entry of the district.
C13_VacioSiFaltaUnaFuente ==
    (pc = "integrado" /\ FuentesCargadas) =>
        /\ ~FuentesNoVacias => resultado = [tipo |-> "ok", candidatos |-> <<>>]
        /\ (FuentesNoVacias /\ resultado # Excepcion) =>
              LET cs == resultado.candidatos
                  votos == entrada.xml.votos
              IN  /\ \A i \in DOMAIN cs :
                        \E k \in DOMAIN votos :
                            /\ ResuelveA(votos[k].id, cs[i].id_api)
                            /\ votos[k].votos = cs[i].votos
                  /\ Len(cs) = Cardinality({k \in DOMAIN votos :
                        \E id \in IdsDelFeed : ResuelveA(votos[k].id, id)})

\* a call for a district without roster rows whose feed and tally have
\* entries, and whose configuration cannot be loaded
C13_Testigo ==
    /\ pc = "integrado"
    /\ FuentesCargadas
    /\ entrada.csv.filas = <<>>
    /\ entrada.api.c # <<>>
    /\ entrada.xml.votos # <<>>
    /\ entrada.config = Excepcion
    /\ resultado # Excepcion
    /\ resultado.candidatos = <<>>

\* the score the metric gives a feed name against a roster row
PuntajeDe(nombre_api, fila) ==
    entrada.similitud[<<PreprocesarNombre(nombre_api),
                        PreprocesarNombre(fila.name)>>]

\* the highest score of a feed name over the roster rows; 0 without rows
MejorPuntaje(nombre_api) ==
    LET filas == entrada.csv.filas
    IN  IF filas = <<>> THEN 0
        ELSE CHOOSE p \in {PuntajeDe(nombre_api, filas[i]) : i \in DOMAIN filas} :
                \A i \in DOMAIN filas : PuntajeDe(nombre_api, filas[i]) <= p

\* what the matcher has to return for a feed name
MatchEsperado(nombre_api, candidato, score) ==
    LET filas == entrada.csv.filas
        mejor == MejorPuntaje(nombre_api)
    IN  IF nombre_api = "" \/ filas = <<>> \/ mejor < 50
        THEN candidato = None /\ score = 0
        ELSE IF mejor < 80
        THEN candidato = None /\ score = mejor
        ELSE /\ score = mejor
             /\ \E i \in DOMAIN filas :
                   candidato = filas[i] /\ PuntajeDe(nombre_api, filas[i]) = mejor

\* C14: for an arbitrary metric into 0..100 the matcher returns (no match,
\* 0) for an empty query, an empty candidate set or a best score below 50,
\* (no match, best score) for a best score in [50,80), and (the roster row
\* of highest score, that score) for a best score >= 80; the reconciler
\* marks a candidate match-successful, with the roster row's coalition
\* letter, exactly in the last case, and otherwise gives it letter "X", no
\* photo and match-success false.
C14_UmbralesDelMatch ==
    /\ pc = "comparado" =>
          MatchEsperado(resultado.nombre_api, resultado.candidato, resultado.score)
    /\ (HayLista /\ entrada.config # Excepcion) =>
          \A i \in DOMAIN resultado.candidatos :
              LET c == resultado.candidatos[i]
                  filas == entrada.csv.filas
                  mejor == MejorPuntaje(c.nombre)
                  exito == c.nombre # "" /\ filas # <<>> /\ mejor >= 80
              IN  /\ c.match_exitoso = exito
                  /\ exito =>
                        \E k \in DOMAIN filas :
                            /\ PuntajeDe(c.nombre, filas[k]) = mejor
                            /\ c.pacto_letra = filas[k].pacto_letra
                  /\ ~exito =>
                        c.pacto_letra = "X" /\ c.foto = SinFoto

\* a match call in which the first roster row scores in the diagnostic
\* band and the second row is accepted with exactly 80
C14_Testigo ==
    /\ pc = "comparado"
    /\ Len(entrada.csv.filas) = 2
    /\ PuntajeDe(resultado.nombre_api, entrada.csv.filas[1]) = 79
    /\ resultado.candidato = entrada.csv.filas[2]
    /\ resultado.score = 80

C16_PactosUnaVezYOrdenados ==
    HayResultado =>
        LET cs == CandidatosDeLaLlamada
            ps == resultado.pactos
            letras == {cs[i].pacto_letra : i \in {j \in DOMAIN cs : cs[j].match_exitoso}}
        IN  /\ \A l \in letras :
                  Cardinality({k \in DOMAIN ps : ps[k].letra = l}) = 1
            /\ \A k \in DOMAIN ps :
                  ps[k].escanos = 0 =>
                      /\ ps[k].candidatos_electos = <<>>
                      /\ ps[k].mujeres_electas = 0
                      /\ ps[k].bonificacion = 0
            /\ \A k \in DOMAIN ps :
                  k + 1 \in DOMAIN ps =>
                      \/ ps[k].escanos > ps[k + 1].escanos
                      \/ /\ ps[k].escanos = ps[k + 1].escanos
                         /\ ps[k].total_votos >= ps[k + 1].total_votos

\* a result whose first entry is not the coalition of the most voted
\* candidate, and whose last entry has no seat
C16_Testigo ==
    /\ HayResultado
    /\ Len(resultado.pactos) >= 2
    /\ resultado.pactos[1].letra # CandidatosDeLaLlamada[1].pacto_letra
    /\ CandidatosDeLaLlamada[1].match_exitoso
    /\ resultado.pactos[Len(resultado.pactos)].escanos = 0

(***************************************************************************)
(* Further claims about one district call (SpecDistrito).                  *)
(***************************************************************************)
\* the configured unit value of the call: 500 when the configuration has
\* none
ValorConfigurado ==
    IF entrada.config.valor_uf = None THEN ValorUFPorDefecto
    ELSE entrada.config.valor_uf.valor

\* C18: in every district result each coalition's mujeres_electas is the
\* number of its elected candidates of sex "M" and its bonificacion is the
\* configured unit value times that number; total_mujeres_electas and
\* total_bonificacion are the sums of the per-coalition values, and
\* total_mujeres_electas never exceeds the district's seat count.
C18_MujeresYBonificacion ==
    HayResultado =>
        LET ps == resultado.pactos
            rm == resultado.resumen_mujeres
        IN  /\ \A k \in DOMAIN ps :
                  LET es == ps[k].candidatos_electos
                      n == Cardinality({i \in DOMAIN es : es[i].sexo = "M"})
                  IN  /\ ps[k].mujeres_electas = n
                      /\ ps[k].bonificacion = ValorConfigurado * n
            /\ rm.total_mujeres_electas =
                  Suma([k \in DOMAIN ps |-> ps[k].mujeres_electas])
            /\ rm.total_bonificacion =
                  Suma([k \in DOMAIN ps |-> ps[k].bonificacion])
            /\ rm.total_mujeres_electas <= entrada.config.escanos.valor

\* a result in which a coalition elected a woman and a man
C18_Testigo ==
    /\ HayResultado
    /\ \E k \in DOMAIN resultado.pactos :
          /\ Len(resultado.pactos[k].candidatos_electos) = 2
          /\ resultado.pactos[k].mujeres_electas = 1
          /\ resultado.pactos[k].bonificacion = ValorUFPorDefecto

\* the reconciled candidate c is the one the elected record e shows
EsElRegistroDe(e, c) ==
    /\ c.match_exitoso
    /\ e.nombre = c.nombre /\ e.cupo = c.cupo /\ e.partido = c.partido
    /\ e.votos = c.votos /\ e.sexo = c.sexo /\ e.foto = c.foto

\* C19: every coalition entry of a district result lists exactly as many
\* elected candidates as it has seats, and no candidate is listed twice: a
\* record appears in the list at most as often as the district has
\* candidates it can stand for.  This covers coalitions with fewer
\* candidates than seats, candidates whose "partido" and "cupo" differ, and
\* candidates of one coalition that share a name.
C19_ElectosTantosComoEscanos ==
    HayResultado =>
        \A k \in DOMAIN resultado.pactos :
            LET pr == resultado.pactos[k]
                es == pr.candidatos_electos
                pool == SelectSeq(CandidatosDeLaLlamada,
                            LAMBDA c : c.pacto_letra = pr.letra)
            IN  /\ Len(es) = pr.escanos
                /\ \A i \in DOMAIN es :
                      Cardinality({j \in DOMAIN es : es[j] = es[i]})
                        <= Cardinality({j \in DOMAIN pool :
                                           EsElRegistroDe(es[i], pool[j])})

(***************************************************************************)
(* Further claims about the National Aggregator (SpecNacional).            *)
(***************************************************************************)
OrdenadaPorVotosDesc(s) ==
    \A i \in DOMAIN s : i + 1 \in DOMAIN s => s[i].votos >= s[i + 1].votos

\* C17: every aggregated list of elected candidates that hemiciclo_nacional
\* returns, the nationwide list and each coalition's list accumulated across
\* districts, is sorted by vote count descending.
C17_ListasNacionalesOrdenadas ==
    pc = "hecho" =>
        /\ OrdenadaPorVotosDesc(resultado.diputados_electos)
        /\ \A k \in DOMAIN resultado.pactos_nacionales :
              OrdenadaPorVotosDesc(resultado.pactos_nacionales[k].candidatos_electos)


\* C20: in the national response total_escanos equals the sum of
\* escanos_totales over the coalitions, both equal total_diputados (the
\* length of the nationwide elected list), and distritos_procesados plus
\* distritos_error is 28.
C20_TotalesNacionalesCoinciden ==
    pc = "hecho" =>
        LET en == resultado.estadisticas_nacionales
            pn == resultado.pactos_nacionales
        IN  /\ en.total_escanos =
                  Suma([k \in DOMAIN pn |-> pn[k].escanos_totales])
            /\ en.total_escanos = en.total_diputados
            /\ en.total_diputados = Len(resultado.diputados_electos)
            /\ resultado.distritos_procesados + resultado.distritos_error
                  = TotalDistritos

=============================================================================
